---- MODULE Spec2Model ----
(***************************************************************************)
(* TuneChange: Spotify -> YouTube playlist conversion.                     *)
(*                                                                         *)
(* The model follows one GET /stream-convert request of src/main.js from   *)
(* the moment the handler is entered until res.end().  Every await of the  *)
(* handler is one step; the answer of the external service at that await   *)
(* is chosen nondeterministically.  Strings the code inspects (playlistUrl,*)
(* existingId) are sequences of one-character strings, so that trim(),     *)
(* toUpperCase() and the regular expression are computed, not assumed.     *)
(* A missing query parameter and an empty one are both the empty sequence: *)
(* every test the code applies to them (!urlOrId, existingId?.trim(),      *)
(* if (ytId)) treats undefined and "" alike.                               *)
(*                                                                         *)
(* Two copies of the route exist.  variant = "main" is src/main.js;        *)
(* variant = "audit" is the copy in src/unnamed/part_000 (lines 1072-1191) *)
(* that checks the user's channel first, accepts a link containing list=   *)
(* as existingId and clears the Spotify tokens when the run completes.     *)
(***************************************************************************)
EXTENDS Integers, Sequences, FiniteSets, TLC

VARIABLES
    variant,        \* which copy of the route serves the request
    googleTokens,   \* req.session.googleTokens present?
    spotifyTokens,  \* req.session.spotifyTokens: [present, access_token]
    playlistUrl,    \* req.query.playlistUrl
    existingId,     \* req.query.existingId
    ytItems,        \* videos held by the destination playlist on YouTube
    pc,             \* position of the handler
    playlistId,     \* const playlistId
    spToken,        \* const spToken
    ytId,           \* let ytId
    title,          \* let title
    tracks,         \* let tracks
    pages,          \* page requests fetchAllSpotifyTracks has made
    i,              \* loop index (0-based, as in the code)
    vid,            \* const vid
    events,         \* what send() has written to the response, in order
    calls,          \* external calls (and delays) issued so far, in order
    closed,         \* res.end() has been called
    responses,      \* page responses served to one fetchAllSpotifyTracks call
    result,         \* what yts(query) settled with inside searchYouTube
    frames,         \* locals of two runs of the route in flight together
    batch,          \* locals and response of one POST /convert request
    spotifyState,   \* req.session.spotifyState
    query           \* req.query of the last sign-in callback

vars == <<variant, googleTokens, spotifyTokens, playlistUrl, existingId, ytItems, pc,
          playlistId, spToken, ytId, title, tracks, pages, i, vid, events,
          calls, closed, responses, result, frames, batch, spotifyState, query>>

\* state kept outside the single run of the route: locals of the helper
\* functions, the frames of two runs in flight together, the batch route
fn == <<responses, result, frames, batch, spotifyState, query>>
session == <<googleTokens, spotifyTokens>>
request == <<playlistUrl, existingId>>

\* ---------------------------------------------------------------- bounds
MaxTracks == 3
MaxPages == 2
MaxIdLen == 2       \* characters of a playlist id given to the parser
MaxItems == 2       \* items of one page given to fetchAllSpotifyTracks
MaxPairTracks == 2  \* tracks of each of two runs in flight together

\* ------------------------------------------------------------ characters
Lower == <<"a","b","c","d","e","f","g","h","i","j","k","l","m",
           "n","o","p","q","r","s","t","u","v","w","x","y","z">>
Upper == <<"A","B","C","D","E","F","G","H","I","J","K","L","M",
           "N","O","P","Q","R","S","T","U","V","W","X","Y","Z">>
Digits == {"0","1","2","3","4","5","6","7","8","9"}
Alnum == {Lower[k] : k \in 1..26} \cup {Upper[k] : k \in 1..26} \cup Digits
Whitespace == {" ", "\t", "\n"}

\* null / undefined of a string-valued expression
Null == <<"null">>
Undefined == "undefined"
LIKED == <<"L","I","K","E","D">>
KwPlaylist == <<"p","l","a","y","l","i","s","t">>

\* String.prototype.trim
Trim(s) ==
    IF \A k \in DOMAIN s : s[k] \in Whitespace THEN <<>>
    ELSE LET lo == CHOOSE k \in DOMAIN s :
                       s[k] \notin Whitespace
                       /\ \A j \in 1..(k-1) : s[j] \in Whitespace
             hi == CHOOSE k \in DOMAIN s :
                       s[k] \notin Whitespace
                       /\ \A j \in (k+1)..Len(s) : s[j] \in Whitespace
         IN SubSeq(s, lo, hi)

ToUpperChar(c) ==
    IF \E k \in 1..26 : Lower[k] = c
    THEN Upper[CHOOSE k \in 1..26 : Lower[k] = c]
    ELSE c

\* String.prototype.toUpperCase
ToUpperCase(s) == IF s = <<>> THEN <<>> ELSE [k \in 1..Len(s) |-> ToUpperChar(s[k])]

\* /playlist[/:]([a-zA-Z0-9]+)/ matches with the keyword starting at p
PlaylistMatchAt(s, p) ==
    /\ p + 9 <= Len(s)
    /\ SubSeq(s, p, p + 7) = KwPlaylist
    /\ s[p + 8] \in {"/", ":"}
    /\ s[p + 9] \in Alnum

\* the capture group without its +: one character
PlaylistCapture_FirstChar(s) ==
    LET p == CHOOSE q \in DOMAIN s :
                 PlaylistMatchAt(s, q) /\ \A r \in 1..(q-1) : ~PlaylistMatchAt(s, r)
    IN SubSeq(s, p + 9, p + 9)

\* match[1]: the greedy capture of the leftmost match
PlaylistCapture(s) ==
    LET p == CHOOSE q \in DOMAIN s :
                 PlaylistMatchAt(s, q) /\ \A r \in 1..(q-1) : ~PlaylistMatchAt(s, r)
        e == CHOOSE j \in (p+9)..Len(s) :
                 /\ \A k \in (p+9)..j : s[k] \in Alnum
                 /\ (j = Len(s) \/ s[j+1] \notin Alnum)
    IN SubSeq(s, p + 9, e)

parseSpotifyPlaylistId(urlOrId) ==
    IF urlOrId = <<>> THEN Null
    ELSE LET url == Trim(urlOrId) IN
         IF ToUpperCase(url) = LIKED THEN LIKED
         ELSE IF \E p \in DOMAIN url : PlaylistMatchAt(url, p)
              THEN PlaylistCapture(url)
              ELSE IF Len(url) > 10 THEN url ELSE Null

\* if (x) on a string-valued x
Truthy(s) == s # <<>> /\ s # Null

\* String.prototype.includes
Includes(s, sub) ==
    \E p \in 1..(Len(s) - Len(sub) + 1) : SubSeq(s, p, p + Len(sub) - 1) = sub

\* positions of character c in s
Positions(s, c) == {k \in DOMAIN s : s[k] = c}
Min(S) == CHOOSE x \in S : \A y \in S : x <= y

\* s.split(c)[1]: the text between the first and the second c; Null
\* (undefined) when s holds no c
SplitSecond(s, c) ==
    IF Positions(s, c) = {} THEN Null
    ELSE LET p == Min(Positions(s, c))
             later == {k \in Positions(s, c) : k > p}
             q == IF later = {} THEN Len(s) + 1 ELSE Min(later)
         IN SubSeq(s, p + 1, q - 1)

\* s.split(c): the pieces of s between occurrences of c, in order
RECURSIVE Split(_, _)
Split(s, c) ==
    IF Positions(s, c) = {} THEN <<s>>
    ELSE LET p == Min(Positions(s, c))
         IN <<SubSeq(s, 1, p - 1)>> \o Split(SubSeq(s, p + 1, Len(s)), c)

\* new URLSearchParams(q).get(name) for q without percent escapes or '+':
\* the value of the first name=value pair with that name, else null;
\* URLSearchParams(undefined) holds no pair
UrlParam(q, name) ==
    IF q = Null THEN Null
    ELSE LET parts == Split(q, "&")
             NameOf(x) == IF Positions(x, "=") = {} THEN x
                          ELSE SubSeq(x, 1, Min(Positions(x, "=")) - 1)
             ValueOf(x) == IF Positions(x, "=") = {} THEN <<>>
                           ELSE SubSeq(x, Min(Positions(x, "=")) + 1, Len(x))
             hits == {k \in DOMAIN parts : parts[k] # <<>> /\ NameOf(parts[k]) = name}
         IN IF hits = {} THEN Null ELSE ValueOf(parts[Min(hits)])

KwList == <<"l","i","s","t">>

\* let ytId = existingId?.trim(), and in the audit copy
\* if (ytId && ytId.includes('list=')) ytId = URLSearchParams(...).get('list')
DestinationId(v, id) ==
    LET t == Trim(id) IN
    IF v = "audit" /\ Truthy(t) /\ Includes(t, KwList \o <<"=">>)
    THEN UrlParam(SplitSecond(t, "?"), KwList)
    ELSE t

\* --------------------------------------------------------- request inputs
PlaylistUrls ==
    { <<" ","l","i","k","e","d">>,
      <<"p","l","a","y","l","i","s","t",":","a","b","?","s">>,
      <<"x","y">> }

AuditPlaylistUrls ==
    { <<"L","i","k","e","d">>,
      <<"p","l","a","y","l","i","s","t","/","a","b">> }

ExistingIds == { <<" ">>, <<" ","P","L","1">> }
\* what the copy that accepts links is given: an id, a link, a bare list=
\* fragment without '?', a link whose list parameter is empty
ExistingLinks ==
    { <<>>,
      <<"P","L","1">>,
      <<"y","?","v","=","1","&","l","i","s","t","=","P","L","1">>,
      <<"l","i","s","t","=","P","L","1">>,
      <<"y","?","l","i","s","t","=">> }

TrackNames == {"A", "B"}
NoTrack == "null"            \* item.track === null
VideoOf(name) == IF name = "A" THEN "vA" ELSE "vB"
NewPlaylistId == <<"P","L","n","e","w">>

\* ----------------------------------------------------------------- events
ErrorEvent(msg) == [type |-> "error", name |-> "", reason |-> msg, count |-> 0, url |-> <<>>]
\* the info event announcing one track fewer than the list holds
InfoEvent_OneShort(total) ==
    [type |-> "info", name |-> "", reason |-> "", count |-> total - 1, url |-> <<>>]
InfoEvent(total) == [type |-> "info", name |-> "", reason |-> "", count |-> total, url |-> <<>>]
TrackEvent(ok, name, reason, count) ==
    [type |-> IF ok THEN "success" ELSE "failure", name |-> name,
     reason |-> reason, count |-> count, url |-> <<>>]
DoneEvent(id) == [type |-> "done", name |-> "", reason |-> "", count |-> 0, url |-> id]

Call(api, idx, res) == [api |-> api, idx |-> idx, res |-> res]

\* no sign-in callback has been requested
NoQuery == [code |-> FALSE, state |-> Undefined]

\* POST /convert has not been requested
NoBatch == [tracks |-> <<>>, videoIds |-> <<>>, validVideos |-> <<>>, k |-> 0,
            added |-> <<>>, failed |-> <<>>, status |-> 0]

\* yts(query) has not been called
NoResult == [kind |-> "none", videos |-> <<>>]

\* ------------------------------------------------------------------- Init
InitOf(v) ==
    /\ variant = v
    /\ googleTokens \in BOOLEAN
    /\ spotifyTokens \in { [present |-> FALSE, access_token |-> Undefined],
                           [present |-> TRUE, access_token |-> "user"] }
    /\ playlistUrl \in IF v = "audit" THEN AuditPlaylistUrls ELSE PlaylistUrls
    /\ existingId \in IF v = "audit" THEN ExistingLinks ELSE ExistingIds
    /\ ytItems \in IF Truthy(DestinationId(v, existingId)) THEN {{}, {"vA"}} ELSE {{}}
    /\ pc = "start"
    /\ playlistId = Null
    /\ spToken = Undefined
    /\ ytId = <<>>
    /\ title = ""
    /\ tracks = <<>>
    /\ pages = 0
    /\ i = 0
    /\ vid = "null"
    /\ events = <<>>
    /\ calls = <<>>
    /\ closed = FALSE
    /\ responses = <<>>
    /\ result = NoResult
    /\ frames = <<>>
    /\ batch = NoBatch
    /\ spotifyState = Undefined
    /\ query = NoQuery

Init == InitOf("main")
InitAudit == InitOf("audit")

\* ------------------------------------------------- answers of the services
\* accounts.spotify.com/api/token: 2xx with a token, non-2xx with an error
\* body (no access_token field), or the request itself fails
TokenAnswers == {"ok", "not_ok", "throw"}
\* youtube.playlists.list: items present, items empty, no items field, throws
ListAnswers == {"found", "empty", "missing", "throw"}
\* youtube.channels.list({mine: true}), same shapes
ChannelAnswers == {"found", "empty", "missing", "throw"}
\* GET playlists/{id}: body with a name, body without one, request fails
\* (the answer shows in title only)
NameAnswers == {"named", "unnamed", "throw"}
\* youtube.playlists.insert
CreateAnswers == {"ok", "throw"}
\* yt-search: a result object with a videos list, a result object without
\* one, a null result, a rejected promise
SearchAnswers(t) ==
    { [kind |-> "videos", videos |-> <<>>],
      [kind |-> "videos", videos |-> <<VideoOf(t)>>],
      [kind |-> "videos", videos |-> <<VideoOf(t), "vX">>],
      [kind |-> "novideos", videos |-> <<>>],
      [kind |-> "null", videos |-> <<>>],
      [kind |-> "throw", videos |-> <<>>] }
\* youtube.playlistItems.insert rejections, by e.errors[0].reason.  An error
\* object without an errors array (a network failure) takes the branch of
\* every reason other than playlistNotFound and is not listed separately.
InsertErrors == {"playlistNotFound", "forbidden", "videoAlreadyInPlaylist"}
InsertAnswers(v) ==
    {"ok"} \cup {e \in InsertErrors : e = "videoAlreadyInPlaylist" => v \in ytItems}

\* one page of the track listing: its items and whether data.next is set
Items(n) == UNION { [1..k -> TrackNames \cup {NoTrack}] : k \in 0..n }
\* the forEach without its if (item.track)
NonNullTracks_KeepsNull(items) == items

RECURSIVE NonNullTracks(_)
\* data.items.forEach(item => { if (item.track) tracks.push(...) })
NonNullTracks(items) ==
    IF items = <<>> THEN <<>>
    ELSE IF Head(items) = NoTrack THEN NonNullTracks(Tail(items))
         ELSE <<Head(items)>> \o NonNullTracks(Tail(items))

\* ------------------------------------------------------- handler fragments
\* the last send of the run without the finally block
End_WithoutClose(evs) ==
    /\ events' = evs
    /\ closed' = closed
    /\ pc' = "ended"

\* finally { res.end() } after the last send of the run
End(evs) ==
    /\ events' = evs
    /\ closed' = TRUE
    /\ pc' = "ended"

\* lines 299-303 (audit copy 1107-1116): compute ytId, look it up if truthy
AfterChannel ==
    /\ ytId' = DestinationId(variant, existingId)
    /\ pc' = IF Truthy(DestinationId(variant, existingId)) THEN "validate" ELSE "fetch"

\* what follows the choice of spToken: the audit copy checks the channel
AfterToken ==
    IF variant = "audit"
    THEN /\ pc' = "channel"
         /\ UNCHANGED ytId
    ELSE AfterChannel

\* the list walked from its end
TrackAt_Reversed(ts, k) == ts[Len(ts) - k]

\* const track = tracks[i]
TrackAt(ts, k) == ts[k + 1]

\* send({info}) followed by the for loop's first test; an empty list goes
\* straight to what follows the loop
EnterLoop(id) ==
    IF Len(tracks') = 0
    THEN /\ End(events \o <<InfoEvent(0), DoneEvent(id)>>)
         /\ spotifyTokens' = IF variant = "audit"
                             THEN [present |-> FALSE, access_token |-> Undefined]
                             ELSE spotifyTokens
         /\ UNCHANGED <<i, vid>>
    ELSE /\ events' = Append(events, InfoEvent(Len(tracks')))
         /\ pc' = "search"
         /\ i' = 0
         /\ UNCHANGED <<vid, closed, spotifyTokens>>

\* the test without its length check
PlaylistMissing_NoLengthCheck(check) == check = "missing"

\* if (!check.data.items || check.data.items.length === 0)
PlaylistMissing(check) == check \in {"empty", "missing"}

\* the test without its reason: any rejection ends the run
AbortsRun_AnyRejection(e) == e \in InsertErrors

\* the test with the duplicate reason added
AbortsRun_OnDuplicate(e) ==
    e \in {"playlistNotFound", "videoAlreadyInPlaylist"}

\* e.errors && e.errors[0].reason === 'playlistNotFound'
AbortsRun(e) == e = "playlistNotFound"

\* the success event sent after the try block instead of inside it
LoopEvent_SuccessAfterCatch(name, v, a, count) ==
    IF v = "null" THEN TrackEvent(FALSE, name, "Not Found", count)
    ELSE TrackEvent(TRUE, name, "", count)

\* the event one loop iteration sends for its track, given vid and the
\* answer to the insert (lines 348-361); not reached when the insert aborts
LoopEvent(name, v, a, count) ==
    IF v = "null" THEN TrackEvent(FALSE, name, "Not Found", count)
    ELSE IF a = "ok" THEN TrackEvent(TRUE, name, "", count)
         ELSE TrackEvent(FALSE, name, "Insert Failed", count)

\* the body without try/catch: a rejection of yts and the TypeError of
\* r.videos.length on a result without videos reach the caller
searchYouTube_WithoutCatch(r) ==
    IF r.kind = "throw" THEN "raise"
    ELSE IF r.kind = "null" THEN "null"
    ELSE IF r.kind = "novideos" THEN "raise"
    ELSE IF Len(r.videos) > 0 THEN r.videos[1] ELSE "null"

\* searchYouTube: (r && r.videos.length > 0) ? r.videos[0].videoId : null,
\* with every exception (rejection, r.videos undefined) turned into null
searchYouTube(r) ==
    IF r.kind = "throw" THEN "null"
    ELSE IF r.kind = "null" THEN "null"
    ELSE IF r.kind = "novideos" THEN "null"
    ELSE IF Len(r.videos) > 0 THEN r.videos[1] ELSE "null"

\* ---------------------------------------------------------------- actions
\* the route without its test of req.session.googleTokens
StreamConvertBegin_NoGoogleCheck ==
    /\ pc = "start"
    /\ playlistId' = parseSpotifyPlaylistId(playlistUrl)
    /\ IF spotifyTokens.present /\ spotifyTokens.access_token # Undefined
       THEN /\ spToken' = spotifyTokens.access_token
            /\ AfterToken
            /\ UNCHANGED <<events, closed>>
       ELSE /\ pc' = "app_token"
            /\ UNCHANGED <<spToken, ytId, events, closed>>
    /\ UNCHANGED <<fn, variant, session, request, ytItems, title, tracks, pages, i,
                   vid, calls>>

\* lines 282-294: parse, Google check, choice of the Spotify token
StreamConvertBegin ==
    /\ pc = "start"
    /\ playlistId' = parseSpotifyPlaylistId(playlistUrl)
    /\ IF ~googleTokens
       THEN /\ End(Append(events, ErrorEvent("Login to YouTube first")))
            /\ UNCHANGED <<spToken, ytId>>
       ELSE IF spotifyTokens.present /\ spotifyTokens.access_token # Undefined
            THEN /\ spToken' = spotifyTokens.access_token
                 /\ AfterToken
                 /\ UNCHANGED <<events, closed>>
            ELSE /\ pc' = "app_token"
                 /\ UNCHANGED <<spToken, ytId, events, closed>>
    /\ UNCHANGED <<fn, variant, session, request, ytItems, title, tracks, pages, i,
                   vid, calls>>

\* lines 50-59 and 294: await getSpotifyAppToken()
GetSpotifyAppToken ==
    /\ pc = "app_token"
    /\ \E a \in TokenAnswers :
        /\ calls' = Append(calls, Call("sp_token", 0, a))
        /\ IF a = "throw"
           THEN /\ End(Append(events, ErrorEvent("fetch failed")))
                /\ UNCHANGED <<spToken, ytId>>
           ELSE /\ spToken' = IF a = "ok" THEN "app" ELSE Undefined
                /\ AfterToken
                /\ UNCHANGED <<events, closed>>
    /\ UNCHANGED <<fn, variant, session, request, ytItems, playlistId, title, tracks,
                   pages, i, vid>>

\* audit copy, lines 1097-1105: youtube.channels.list({mine: true})
ChannelCheck ==
    /\ pc = "channel"
    /\ \E a \in ChannelAnswers :
        /\ calls' = Append(calls, Call("yt_channels", 0, a))
        /\ IF a = "throw"
           THEN /\ End(Append(events, ErrorEvent("Failed to verify YouTube channel status.")))
                /\ UNCHANGED ytId
           ELSE IF a \in {"empty", "missing"}
                THEN /\ End(Append(events, ErrorEvent("No YouTube Channel found.")))
                     /\ UNCHANGED ytId
                ELSE /\ AfterChannel
                     /\ UNCHANGED <<events, closed>>
    /\ UNCHANGED <<fn, variant, session, request, ytItems, playlistId, spToken, title,
                   tracks, pages, i, vid>>

\* lines 303-318: youtube.playlists.list({id: ytId})
ValidateExisting ==
    /\ pc = "validate"
    /\ \E a \in ListAnswers :
        /\ calls' = Append(calls, Call("yt_list", 0, a))
        /\ IF a = "throw"
           THEN End(Append(events, ErrorEvent("YouTube API Error")))
           ELSE IF PlaylistMissing(a)
                THEN End(Append(events, ErrorEvent("YouTube Playlist ID not found.")))
                ELSE /\ pc' = "fetch"
                     /\ UNCHANGED <<events, closed>>
    /\ UNCHANGED <<fn, variant, session, request, ytItems, playlistId, spToken, ytId,
                   title, tracks, pages, i, vid>>

\* the continuation without the test of line 322: a null list is carried on
FetchReturned_IgnoresNull(isNull) ==
    IF ~Truthy(ytId)
    THEN /\ title' = IF playlistId = LIKED THEN "Liked Songs" ELSE "TuneChange Playlist"
         /\ pc' = IF playlistId = LIKED THEN "create" ELSE "name"
         /\ UNCHANGED <<spotifyTokens, events, closed, i, vid>>
    ELSE /\ EnterLoop(ytId)
         /\ UNCHANGED title

\* lines 321-343, entered when fetchAllSpotifyTracks has returned
\* (isNull: it returned null)
FetchReturned(isNull) ==
    IF isNull
    THEN /\ End(Append(events, ErrorEvent("Spotify access failed. Check URL or privacy.")))
         /\ UNCHANGED <<spotifyTokens, title, i, vid>>
    ELSE IF ~Truthy(ytId)
         THEN /\ title' = IF playlistId = LIKED THEN "Liked Songs" ELSE "TuneChange Playlist"
              /\ pc' = IF playlistId = LIKED THEN "create" ELSE "name"
              /\ UNCHANGED <<spotifyTokens, events, closed, i, vid>>
         ELSE /\ EnterLoop(ytId)
              /\ UNCHANGED title

\* lines 69-87: one iteration of while (url), and line 320 when it returns
FetchPage ==
    /\ pc = "fetch"
    /\ pages < MaxPages
    /\ pages' = pages + 1
    /\ \/ \* !res.ok: return tracks.length > 0 ? tracks : null
          /\ calls' = Append(calls, Call("sp_tracks", pages + 1, "not_ok"))
          /\ tracks' = tracks
          /\ FetchReturned(tracks = <<>>)
       \/ \* fetch() or res.json() rejects
          /\ calls' = Append(calls, Call("sp_tracks", pages + 1, "throw"))
          /\ tracks' = tracks
          /\ End(Append(events, ErrorEvent("fetch failed")))
          /\ UNCHANGED <<spotifyTokens, title, i, vid>>
       \/ \E items \in Items(MaxTracks), next \in BOOLEAN :
          /\ Len(tracks) + Len(items) <= MaxTracks
          /\ calls' = Append(calls, Call("sp_tracks", pages + 1, "ok"))
          /\ tracks' = tracks \o NonNullTracks(items)
          /\ IF next
             THEN UNCHANGED <<spotifyTokens, pc, events, closed, title, i, vid>>
             ELSE FetchReturned(FALSE)
    /\ UNCHANGED <<fn, variant, googleTokens, request, ytItems, playlistId, spToken, ytId>>

\* lines 329-333: the playlist's name, for the new playlist's title
FetchName ==
    /\ pc = "name"
    /\ \E a \in NameAnswers :
        /\ calls' = Append(calls, Call("sp_name", 0, ""))
        /\ title' = IF a = "named" THEN "SpotifyName" ELSE title
    /\ pc' = "create"
    /\ UNCHANGED <<fn, variant, session, request, ytItems, playlistId, spToken, ytId,
                   tracks, pages, i, vid, events, closed>>

\* lines 336-343: youtube.playlists.insert, then the info event
CreatePlaylist ==
    /\ pc = "create"
    /\ \E a \in CreateAnswers :
        /\ calls' = Append(calls, Call("yt_create", 0, a))
        /\ tracks' = tracks
        /\ IF a = "throw"
           THEN /\ End(Append(events, ErrorEvent("insert failed")))
                /\ UNCHANGED <<spotifyTokens, ytId, i, vid>>
           ELSE /\ ytId' = NewPlaylistId
                /\ EnterLoop(NewPlaylistId)
    /\ UNCHANGED <<fn, variant, googleTokens, request, ytItems, playlistId, spToken,
                   title, pages>>

\* lines 346-348 and 359-361: await searchYouTube(...)
SearchYouTube ==
    /\ pc = "search"
    /\ \E r \in SearchAnswers(TrackAt(tracks, i)) :
        LET v == searchYouTube(r) IN
        /\ vid' = v
        /\ calls' = Append(calls, Call("yt_search", i + 1, v))
        /\ IF v # "null"
           THEN /\ pc' = "insert"
                /\ UNCHANGED events
           ELSE /\ pc' = "delay"
                /\ events' = Append(events, LoopEvent(TrackAt(tracks, i), v, "none", i + 1))
    /\ UNCHANGED <<fn, variant, session, request, ytItems, playlistId, spToken, ytId,
                   title, tracks, pages, i, closed>>

\* line 91: yts(query) never settles; searchYouTube has no timeout
SearchNeverResponds ==
    /\ pc = "search"
    /\ pc' = "hung"
    /\ UNCHANGED <<fn, variant, session, request, ytItems, playlistId, spToken, ytId,
                   title, tracks, pages, i, vid, events, calls, closed>>

\* lines 349-358: await youtube.playlistItems.insert(...)
InsertItem ==
    /\ pc = "insert"
    /\ \E a \in InsertAnswers(vid) :
        /\ calls' = Append(calls, Call("yt_insert", i + 1, a))
        /\ ytItems' = IF a = "ok" THEN ytItems \cup {vid} ELSE ytItems
        /\ IF a # "ok" /\ AbortsRun(a)
           THEN End(Append(events, ErrorEvent("Permission Error: Logged into wrong Brand Account?")))
           ELSE /\ events' = Append(events, LoopEvent(TrackAt(tracks, i), vid, a, i + 1))
                /\ pc' = "delay"
                /\ UNCHANGED closed
    /\ UNCHANGED <<fn, variant, session, request, playlistId, spToken, ytId, title,
                   tracks, pages, i, vid>>

\* the loop without its pause
Delay_WithoutPause ==
    /\ pc = "delay"
    /\ calls' = calls
    /\ i' = i + 1
    /\ IF i + 1 < Len(tracks)
       THEN /\ pc' = "search"
            /\ UNCHANGED <<spotifyTokens, events, closed>>
       ELSE /\ End(Append(events, DoneEvent(ytId)))
            /\ spotifyTokens' = IF variant = "audit"
                                THEN [present |-> FALSE, access_token |-> Undefined]
                                ELSE spotifyTokens
    /\ UNCHANGED <<fn, variant, googleTokens, request, ytItems, playlistId, spToken,
                   ytId, title, tracks, pages, vid>>

\* lines 362-364 and 345: the 600 ms pause, i++, the loop test, and after the
\* loop the done event (audit copy: the Spotify tokens are cleared first)
Delay ==
    /\ pc = "delay"
    /\ calls' = Append(calls, Call("delay", i + 1, "600"))
    /\ i' = i + 1
    /\ IF i + 1 < Len(tracks)
       THEN /\ pc' = "search"
            /\ UNCHANGED <<spotifyTokens, events, closed>>
       ELSE /\ End(Append(events, DoneEvent(ytId)))
            /\ spotifyTokens' = IF variant = "audit"
                                THEN [present |-> FALSE, access_token |-> Undefined]
                                ELSE spotifyTokens
    /\ UNCHANGED <<fn, variant, googleTokens, request, ytItems, playlistId, spToken,
                   ytId, title, tracks, pages, vid>>

Next ==
    \/ StreamConvertBegin
    \/ GetSpotifyAppToken
    \/ ValidateExisting
    \/ FetchPage
    \/ FetchName
    \/ CreatePlaylist
    \/ SearchYouTube
    \/ SearchNeverResponds
    \/ InsertItem
    \/ Delay

Spec == Init /\ [][Next]_vars

\* Every await of the handler is answered or fails unless stated otherwise
\* (SearchNeverResponds): a step that can be taken is eventually taken.
SpecLive == Init /\ [][Next]_vars /\ WF_vars(Next)

NextAudit ==
    \/ Next
    \/ ChannelCheck

SpecAudit == InitAudit /\ [][NextAudit]_vars

\* The client closes the connection while the loop runs.  src/main.js
\* registers no listener for it and the loop (lines 345-363) tests nothing
\* about the connection, so only the log of the run records the moment and
\* the track then in progress.  (The copy in part_000 registers
\* req.on('close', () => res.end()), lines 1073-1077, and its loop tests
\* nothing either.)
ClientCloses ==
    /\ variant = "main"
    /\ pc \in {"search", "insert", "delay"}
    /\ ~\E k \in DOMAIN calls : calls[k].api = "close"
    /\ calls' = Append(calls, Call("close", i + 1, ""))
    /\ UNCHANGED <<fn, variant, session, request, ytItems, pc, playlistId, spToken,
                   ytId, title, tracks, pages, i, vid, events, closed>>

NextClose ==
    \/ Next
    \/ ClientCloses

SpecClose == Init /\ [][NextClose]_vars

\* ------------------------------------------------ the helpers on their own
\* Inputs of parseSpotifyPlaylistId: a playlist reference is some text, the
\* keyword, '/' or ':', an id, and a tail that does not continue the id.
IdChars == {"a", "Z", "7"}
Ids == UNION { [1..n -> IdChars] : n \in 1..MaxIdLen }
RefPrefixes == { <<>>, <<" ">>, <<"o","/">> }
RefTails == { <<>>, <<"?","s">>, <<" ">>, <<"&","p","l","a","y","l","i","s","t","/","q">> }
PlaylistRefs ==
    { pre \o KwPlaylist \o <<sep>> \o id \o tail :
        pre \in RefPrefixes, sep \in {"/", ":"}, id \in Ids, tail \in RefTails }
\* the word liked in every letter case, with and without whitespace around
LikedWords ==
    { [k \in 1..5 |-> IF k \in U THEN LIKED[k] ELSE Lower[CHOOSE j \in 1..26 : Upper[j] = LIKED[k]]] :
        U \in SUBSET (1..5) }
LikedRefs ==
    { pre \o w \o tail : pre \in {<<>>, <<" ">>}, w \in LikedWords,
                          tail \in {<<>>, <<"\t", "\n">>} }
\* other texts: nothing, a short word, a bare id of more than ten
\* characters, the sentinel's letters as a playlist id, near misses
OtherRefs ==
    { <<>>, <<"x","y">>, <<"a","b","c","d","e","f","g","h","i","j","k">>,
      <<"p","l","a","y","l","i","s","t","/","L","I","K","E","D">>,
      <<"p","l","a","y","l","i","s","t",":","L","I","K","E","D","?","s">>,
      <<"p","l","a","y","l","i","s","t","/","l","i","k","e","d">>,
      <<"L","I","K","E","D","X">>, <<"l"," ","i","k","e","d">>,
      <<"P","l","a","y","l","i","s","t","/","a","b">> }
ParseInputs == PlaylistRefs \cup LikedRefs \cup OtherRefs

\* lines 71-73: the first url fetchAllSpotifyTracks requests
TracksUrl(id) ==
    IF id = LIKED THEN [path |-> "me/tracks", id |-> <<>>]
    ELSE [path |-> "playlists/{id}/tracks", id |-> id]

\* Page responses of the track listing: res.ok, data.items, data.next set.
\* Every page but the last answered 200 with a next cursor (otherwise no
\* further page would have been requested).
PageResponse(ok, items, next) == [ok |-> ok, items |-> items, next |-> next]
LastPages ==
    {PageResponse(TRUE, it, FALSE) : it \in Items(MaxItems)}
        \cup {PageResponse(FALSE, <<>>, FALSE)}
InnerPages == {PageResponse(TRUE, it, TRUE) : it \in Items(MaxItems)}
IsListing(resps) ==
    \E n \in 0..(MaxPages - 1) : \E inner \in [1..n -> InnerPages] : \E last \in LastPages :
        resps = inner \o <<last>>

\* lines 75-86: the while (url) loop from the k-th response on, acc being
\* the tracks gathered so far; null is Null
RECURSIVE FetchLoop(_, _, _)
FetchLoop(resps, k, acc) ==
    IF ~resps[k].ok THEN (IF Len(acc) > 0 THEN acc ELSE Null)
    ELSE LET gathered == acc \o NonNullTracks(resps[k].items)
         IN IF resps[k].next THEN FetchLoop(resps, k + 1, gathered) ELSE gathered

fetchAllSpotifyTracks(resps) == FetchLoop(resps, 1, <<>>)

\* what yts(query) can settle with, for either track
SearchOutcomes == UNION { SearchAnswers(n) : n \in TrackNames }

InitFn ==
    /\ variant = "main"
    /\ googleTokens = TRUE
    /\ spotifyTokens = [present |-> FALSE, access_token |-> Undefined]
    /\ existingId = <<>>
    /\ ytItems = {}
    /\ playlistId = Null
    /\ spToken = Undefined
    /\ ytId = <<>>
    /\ title = ""
    /\ tracks = <<>>
    /\ pages = 0
    /\ i = 0
    /\ vid = "null"
    /\ events = <<>>
    /\ calls = <<>>
    /\ closed = FALSE
    /\ frames = <<>>
    /\ batch = NoBatch
    /\ spotifyState = Undefined
    /\ query = NoQuery
    /\ \/ /\ pc = "parse"
          /\ playlistUrl \in ParseInputs
          /\ responses = <<>>
          /\ result = NoResult
       \/ /\ pc = "fetchAll"
          /\ playlistUrl = <<>>
          /\ IsListing(responses)
          /\ result = NoResult
       \/ /\ pc = "searchOne"
          /\ playlistUrl = <<>>
          /\ responses = <<>>
          /\ result \in SearchOutcomes

\* one call of parseSpotifyPlaylistId (lines 61-67)
ParsePlaylistId ==
    /\ pc = "parse"
    /\ playlistId' = parseSpotifyPlaylistId(playlistUrl)
    /\ pc' = "parsed"
    /\ UNCHANGED <<fn, variant, session, request, ytItems, spToken, ytId, title,
                   tracks, pages, i, vid, events, calls, closed>>

\* one call of fetchAllSpotifyTracks (lines 69-87) served with responses
FetchAllTracks ==
    /\ pc = "fetchAll"
    /\ tracks' = fetchAllSpotifyTracks(responses)
    /\ pages' = Len(responses)
    /\ pc' = "fetched"
    /\ UNCHANGED <<fn, variant, session, request, ytItems, playlistId, spToken, ytId,
                   title, i, vid, events, calls, closed>>

\* one call of searchYouTube (lines 89-94) in which yts settled with result
SearchOne ==
    /\ pc = "searchOne"
    /\ vid' = searchYouTube(result)
    /\ pc' = "searched"
    /\ UNCHANGED <<fn, variant, session, request, ytItems, playlistId, spToken, ytId,
                   title, tracks, pages, i, events, calls, closed>>

NextFn ==
    \/ ParsePlaylistId
    \/ FetchAllTracks
    \/ SearchOne

SpecFn == InitFn /\ [][NextFn]_vars

\* ------------------------------------------- two runs in flight together
\* Two requests are served by two invocations of the handler of lines
\* 282-367.  Each invocation is followed from the return of
\* fetchAllSpotifyTracks on; its locals (ytId, tracks, i, vid), what it has
\* sent and the answers it was given (log) form its frame.  The runs
\* alternate at their awaits.
Runs == {1, 2}
ExistingPlaylist == <<"P","L","1">>
\* ids YouTube gives to the playlists the two runs create
CreatedId(r) == NewPlaylistId \o (IF r = 1 THEN <<"1">> ELSE <<"2">>)
\* the two runs convert different lists: A,B,A,.. and B,A,B,..
PairTracks(r, n) == [k \in 1..n |-> IF (k + r) % 2 = 0 THEN "A" ELSE "B"]
Frame(r, n, given) ==
    [pc |-> "fetched", given |-> given, ytId |-> given, tracks |-> PairTracks(r, n),
     i |-> 0, vid |-> "null", events |-> <<>>, log |-> <<>>]
Answer(api, res) == [api |-> api, res |-> res]

\* one loop index for both invocations, as a variable of the module would be
IndexOwner_Shared(r) == 1

\* for (let i = 0; ...): i belongs to the invocation
IndexOwner(r) == r
IndexOf(r) == frames[IndexOwner(r)].i
\* tracks[i]; undefined outside the list
PairTrack(r) ==
    IF IndexOf(r) < Len(frames[r].tracks) THEN TrackAt(frames[r].tracks, IndexOf(r))
    ELSE "undefined"

InitPair ==
    /\ variant = "main"
    /\ googleTokens = TRUE
    /\ spotifyTokens = [present |-> TRUE, access_token |-> "user"]
    /\ playlistUrl = <<>>
    /\ existingId = <<>>
    /\ ytItems = {}
    /\ pc = "pair"
    /\ playlistId = Null
    /\ spToken = Undefined
    /\ ytId = <<>>
    /\ title = ""
    /\ tracks = <<>>
    /\ pages = 0
    /\ i = 0
    /\ vid = "null"
    /\ events = <<>>
    /\ calls = <<>>
    /\ closed = FALSE
    /\ responses = <<>>
    /\ result = NoResult
    /\ batch = NoBatch
    /\ spotifyState = Undefined
    /\ query = NoQuery
    /\ \E n1 \in 1..MaxPairTracks : \E n2 \in 1..MaxPairTracks :
       \E g1 \in {<<>>, ExistingPlaylist} : \E g2 \in {<<>>, ExistingPlaylist} :
           frames = <<Frame(1, n1, g1), Frame(2, n2, g2)>>

PairFrame == <<variant, session, request, ytItems, pc, playlistId, spToken, ytId,
               title, tracks, pages, i, vid, events, calls, closed, responses, result,
               batch, spotifyState, query>>

\* lines 324-345 up to the first await: with an id given, the info event
\* and the loop's first test; without one, on to playlists.insert
PairBegin(r) ==
    /\ frames[r].pc = "fetched"
    /\ IF Truthy(frames[r].ytId)
       THEN frames' = [[frames EXCEPT ![r].events = <<InfoEvent(Len(frames[r].tracks))>>,
                                      ![r].pc = "search"]
                          EXCEPT ![IndexOwner(r)].i = 0]
       ELSE frames' = [frames EXCEPT ![r].pc = "create"]
    /\ UNCHANGED PairFrame

\* lines 336-345: await youtube.playlists.insert, the info event, i = 0
PairCreate(r) ==
    /\ frames[r].pc = "create"
    /\ \E a \in CreateAnswers :
        IF a = "throw"
        THEN frames' = [frames EXCEPT ![r].log = Append(@, Answer("yt_create", a)),
                                      ![r].events = Append(@, ErrorEvent("insert failed")),
                                      ![r].pc = "ended"]
        ELSE frames' = [[frames EXCEPT ![r].log = Append(@, Answer("yt_create", a)),
                                       ![r].ytId = CreatedId(r),
                                       ![r].events = Append(@, InfoEvent(Len(frames[r].tracks))),
                                       ![r].pc = "search"]
                           EXCEPT ![IndexOwner(r)].i = 0]
    /\ UNCHANGED PairFrame

\* lines 346-348 and 359-361: await searchYouTube(...)
PairSearch(r) ==
    /\ frames[r].pc = "search"
    /\ \E v \in {VideoOf(PairTrack(r)), "null"} :
        frames' = [frames EXCEPT
            ![r].log = Append(@, Answer("yt_search", v)),
            ![r].vid = v,
            ![r].events = IF v = "null"
                          THEN Append(@, LoopEvent(PairTrack(r), v, "none", IndexOf(r) + 1))
                          ELSE @,
            ![r].pc = IF v = "null" THEN "delay" ELSE "insert"]
    /\ UNCHANGED PairFrame

\* lines 349-358: await youtube.playlistItems.insert(...)
PairInsert(r) ==
    /\ frames[r].pc = "insert"
    /\ \E a \in {"ok", "forbidden", "playlistNotFound"} :
        IF a # "ok" /\ AbortsRun(a)
        THEN frames' = [frames EXCEPT
                 ![r].log = Append(@, Answer("yt_insert", a)),
                 ![r].events = Append(@, ErrorEvent("Permission Error: Logged into wrong Brand Account?")),
                 ![r].pc = "ended"]
        ELSE frames' = [frames EXCEPT
                 ![r].log = Append(@, Answer("yt_insert", a)),
                 ![r].events = Append(@, LoopEvent(PairTrack(r), frames[r].vid, a, IndexOf(r) + 1)),
                 ![r].pc = "delay"]
    /\ UNCHANGED PairFrame

\* lines 362-364 and 345: the pause, i++, the loop test, the done event
PairDelay(r) ==
    /\ frames[r].pc = "delay"
    /\ LET next == IndexOf(r) + 1
           more == next < Len(frames[r].tracks)
       IN frames' = [[frames EXCEPT
                 ![r].log = Append(@, Answer("delay", "600")),
                 ![r].events = IF more THEN @ ELSE Append(@, DoneEvent(frames[r].ytId)),
                 ![r].pc = IF more THEN "search" ELSE "ended"]
                    EXCEPT ![IndexOwner(r)].i = next]
    /\ UNCHANGED PairFrame

NextPair ==
    \/ \E r \in Runs : PairBegin(r)
    \/ \E r \in Runs : PairCreate(r)
    \/ \E r \in Runs : PairSearch(r)
    \/ \E r \in Runs : PairInsert(r)
    \/ \E r \in Runs : PairDelay(r)

SpecPair == InitPair /\ [][NextPair]_vars

\* ------------------------------------------------------- the batch route
\* POST /convert of src/Readme.md (lines 858-907) with
\* createYouTubePlaylistAndAddVideos (lines 726-773), from the return of
\* fetchAllSpotifyTracks with a non-empty list on.  batch holds tracks,
\* videoIds, validVideos, the position k in validVideos, results.added,
\* results.failed and the status of the response (0: none yet).
RECURSIVE NotNull(_)
\* videoIds.filter(v => v !== null)
NotNull(vs) ==
    IF vs = <<>> THEN <<>>
    ELSE IF Head(vs) = "null" THEN NotNull(Tail(vs))
         ELSE <<Head(vs)>> \o NotNull(Tail(vs))

InitBatch ==
    /\ variant = "batch"
    /\ googleTokens = TRUE
    /\ spotifyTokens = [present |-> TRUE, access_token |-> "user"]
    /\ playlistUrl = <<>>
    /\ existingId \in {<<>>, ExistingPlaylist}
    /\ ytItems = {}
    /\ pc = "batch_search"
    /\ playlistId = Null
    /\ spToken = Undefined
    /\ ytId = <<>>
    /\ title = ""
    /\ tracks = <<>>
    /\ pages = 0
    /\ i = 0
    /\ vid = "null"
    /\ events = <<>>
    /\ calls = <<>>
    /\ closed = FALSE
    /\ responses = <<>>
    /\ result = NoResult
    /\ frames = <<>>
    /\ spotifyState = Undefined
    /\ query = NoQuery
    /\ \E n \in 1..MaxTracks : \E ts \in [1..n -> TrackNames] :
           batch = [NoBatch EXCEPT !.tracks = ts]

BatchFrame == <<variant, session, request, ytItems, playlistId, spToken, title,
                tracks, pages, i, vid, events, calls, closed, responses, result, frames,
                spotifyState, query>>

\* lines 877-885: one iteration of the search loop, and after the last one
\* the filter of line 887
BatchSearch ==
    /\ pc = "batch_search"
    /\ \E v \in {VideoOf(batch.tracks[Len(batch.videoIds) + 1]), "null"} :
        LET ids == Append(batch.videoIds, v) IN
        IF Len(ids) < Len(batch.tracks)
        THEN /\ batch' = [batch EXCEPT !.videoIds = ids]
             /\ UNCHANGED pc
        ELSE /\ batch' = [batch EXCEPT !.videoIds = ids, !.validVideos = NotNull(ids)]
             /\ pc' = "batch_create"
    /\ UNCHANGED <<ytId, BatchFrame>>

\* what follows the last insert: return { playlistId, results } and
\* res.json({..., added, failed})
BatchRespond(b) ==
    IF b.k < Len(b.validVideos) THEN /\ batch' = b
                                     /\ pc' = "batch_insert"
    ELSE /\ batch' = [b EXCEPT !.status = 200]
         /\ pc' = "batch_done"

\* lines 726-749: let playlistId = existingPlaylistId, and
\* youtube.playlists.insert when no playlist id was given
BatchCreate ==
    /\ pc = "batch_create"
    /\ IF Truthy(existingId)
       THEN /\ ytId' = existingId
            /\ BatchRespond(batch)
       ELSE \E a \in CreateAnswers :
            IF a = "throw"
            THEN /\ batch' = [batch EXCEPT !.status = 500]
                 /\ pc' = "batch_done"
                 /\ UNCHANGED ytId
            ELSE /\ ytId' = NewPlaylistId
                 /\ BatchRespond(batch)
    /\ UNCHANGED BatchFrame

\* lines 751-769: one iteration of for (const vid of videoIds)
BatchInsert ==
    /\ pc = "batch_insert"
    /\ \E a \in {"ok", "forbidden"} :
        LET v == batch.validVideos[batch.k + 1] IN
        BatchRespond([batch EXCEPT
            !.k = @ + 1,
            !.added = IF a = "ok" THEN Append(@, v) ELSE @,
            !.failed = IF a = "ok" THEN @ ELSE Append(@, v)])
    /\ UNCHANGED <<ytId, BatchFrame>>

NextBatch ==
    \/ BatchSearch
    \/ BatchCreate
    \/ BatchInsert

SpecBatch == InitBatch /\ [][NextBatch]_vars

\* ------------------------------------------- the page loop, page by page
\* What the loops below leave alone, and its value at their start.
InitLoop(v, p) ==
    /\ variant = v
    /\ googleTokens = TRUE
    /\ playlistUrl = <<>>
    /\ existingId = <<>>
    /\ ytItems = {}
    /\ pc = p
    /\ spToken = Undefined
    /\ ytId = <<>>
    /\ title = ""
    /\ tracks = <<>>
    /\ pages = 0
    /\ vid = "null"
    /\ events = <<>>
    /\ calls = <<>>
    /\ closed = FALSE
    /\ result = NoResult
    /\ frames = <<>>
    /\ batch = NoBatch
    /\ spotifyState = Undefined
    /\ query = NoQuery

\* The listing as Spotify serves it: page u answers with ok, items and the
\* url of another page that data.next names (0: data.next is null).
\* Nothing in the protocol keeps next from naming a page already served.
ServedPages(n) ==
    {ps \in [1..n -> {[ok |-> o, items |-> it, next |-> nx] :
                         o \in BOOLEAN, it \in Items(1), nx \in 0..n}] :
        \A u \in 1..n : ps[u].next # u}

\* main.js lines 70-73: tracks = [], url the first page; i is the page url
\* names
InitChain ==
    /\ InitLoop("main", "chain_fetch")
    /\ spotifyTokens = [present |-> FALSE, access_token |-> Undefined]
    /\ playlistId = <<"a">>
    /\ i = 1
    /\ \E n \in 1..MaxPages : responses \in ServedPages(n)

\* main.js lines 76-86: one iteration of while (url), and the return that
\* follows it when url has become null
ChainFetch ==
    /\ pc = "chain_fetch"
    /\ Len(tracks) <= MaxTracks
    /\ LET res == responses[i] IN
       IF ~res.ok
       THEN /\ tracks' = IF Len(tracks) > 0 THEN tracks ELSE Null
            /\ pc' = "chain_returned"
            /\ UNCHANGED i
       ELSE /\ tracks' = tracks \o NonNullTracks(res.items)
            /\ i' = res.next
            /\ pc' = IF res.next = 0 THEN "chain_returned" ELSE "chain_fetch"
    /\ UNCHANGED <<fn, variant, session, request, ytItems, playlistId, spToken, ytId,
                   title, pages, vid, events, calls, closed>>

\* the event loop runs a continuation that is ready
SpecChain == InitChain /\ [][ChainFetch]_vars /\ WF_vars(ChainFetch)

\* ------------------------------------ the page loop with a cap on pages
\* fetchAllSpotifyTracks of src/Readme.md (lines 133-186).
\* const MAX_PAGES = 2 (line 158)
MAX_PAGES == 2
\* ?limit=50 of the request urls (lines 142-148): the most items a page
\* carries, MaxItems in the model
PageLimit == MaxItems

InitCapped ==
    /\ InitLoop("readme", "capped_begin")
    /\ spotifyTokens \in {[present |-> FALSE, access_token |-> Undefined],
                          [present |-> TRUE, access_token |-> "user"]}
    /\ playlistId \in {LIKED, <<"a">>}
    /\ i = 0
    /\ responses = <<>>

\* lines 134-158: the token and the url to use
CappedBegin ==
    /\ pc = "capped_begin"
    /\ IF playlistId = LIKED /\ ~spotifyTokens.present
       THEN /\ pc' = "capped_thrown"
            /\ UNCHANGED <<spToken, calls>>
       ELSE IF spotifyTokens.present
       THEN /\ spToken' = spotifyTokens.access_token
            /\ pc' = "capped_fetch"
            /\ UNCHANGED calls
       ELSE \E a \in {"ok", "throw"} :
            /\ calls' = Append(calls, Call("sp_token", 0, a))
            /\ spToken' = IF a = "ok" THEN "app" ELSE spToken
            /\ pc' = IF a = "ok" THEN "capped_fetch" ELSE "capped_thrown"
    /\ UNCHANGED <<fn, variant, session, request, ytItems, playlistId, ytId, title,
                   tracks, pages, i, vid, events, closed>>

\* lines 160-185: one iteration of while (nextUrl && pages < MAX_PAGES), and
\* return tracks when the condition no longer holds
CappedFetch ==
    /\ pc = "capped_fetch"
    /\ \/ \* !res.ok: throw
          /\ calls' = Append(calls, Call("sp_tracks", pages + 1, "not_ok"))
          /\ pc' = "capped_thrown"
          /\ UNCHANGED <<tracks, pages>>
       \/ \E items \in Items(PageLimit), next \in BOOLEAN :
          /\ calls' = Append(calls, Call("sp_tracks", pages + 1, "ok"))
          /\ tracks' = tracks \o NonNullTracks(items)
          /\ pages' = pages + 1
          /\ pc' = IF next /\ pages + 1 < MAX_PAGES THEN "capped_fetch"
                   ELSE "capped_returned"
    /\ UNCHANGED <<fn, variant, session, request, ytItems, playlistId, spToken, ytId,
                   title, i, vid, events, closed>>

NextCapped ==
    \/ CappedBegin
    \/ CappedFetch

SpecCapped == InitCapped /\ [][NextCapped]_vars

\* --------------------------------- the page loop with the retry on 401
\* fetchAllSpotifyTracks of the batch copy (src/unnamed/part_000, lines
\* 89-158).
InitRetry ==
    /\ InitLoop("batch", "retry_begin")
    /\ spotifyTokens \in {[present |-> FALSE, access_token |-> Undefined],
                          [present |-> TRUE, access_token |-> "user"]}
    /\ playlistId \in {LIKED, <<"a">>}
    /\ i = 0
    /\ responses = <<>>

\* lines 90-117: the token and the url to use
RetryBegin ==
    /\ pc = "retry_begin"
    /\ IF playlistId = LIKED /\ ~spotifyTokens.present
       THEN /\ pc' = "retry_thrown"
            /\ UNCHANGED <<spToken, calls>>
       ELSE IF spotifyTokens.present
       THEN /\ spToken' = spotifyTokens.access_token
            /\ pc' = "retry_fetch"
            /\ UNCHANGED calls
       ELSE \E a \in {"ok", "throw"} :
            /\ calls' = Append(calls, Call("sp_token", 0, a))
            /\ spToken' = IF a = "ok" THEN "app" ELSE spToken
            /\ pc' = IF a = "ok" THEN "retry_fetch" ELSE "retry_thrown"
    /\ UNCHANGED <<fn, variant, session, request, ytItems, playlistId, ytId, title,
                   tracks, pages, i, vid, events, closed>>

\* what res.status can be: 200, 401, another failure
PageStatus == {"ok", "401", "not_ok"}

\* lines 119-156: one iteration of while (nextUrl); pages counts the pages
\* asked for, the one in hand included
RetryFetch ==
    /\ pc = "retry_fetch"
    /\ pages < MaxPages
    /\ pages' = pages + 1
    /\ \E st \in PageStatus :
        LET first == Append(calls, Call("sp_tracks", pages + 1, st)) IN
        IF st = "401" /\ playlistId # LIKED /\ ~spotifyTokens.present
        THEN \* lines 122-133
             \E a \in {"ok", "throw"} :
             LET asked == Append(first, Call("sp_token", pages + 1, a)) IN
             IF a = "throw"
             THEN /\ calls' = asked
                  /\ pc' = "retry_thrown"
                  /\ UNCHANGED <<tracks, spToken>>
             ELSE \E rt \in PageStatus :
                  \* retryRes is only tested; line 135 tests res again
                  /\ calls' = Append(asked, Call("sp_tracks", pages + 1, rt))
                  /\ spToken' = "app"
                  /\ pc' = "retry_thrown"
                  /\ UNCHANGED tracks
        ELSE IF st # "ok"
        THEN \* lines 135-140
             /\ calls' = first
             /\ pc' = "retry_thrown"
             /\ UNCHANGED <<tracks, spToken>>
        ELSE \* lines 142-155
             \E items \in Items(MaxItems), next \in BOOLEAN :
             /\ calls' = first
             /\ tracks' = tracks \o NonNullTracks(items)
             /\ pc' = IF next THEN "retry_fetch" ELSE "retry_returned"
             /\ UNCHANGED spToken
    /\ UNCHANGED <<fn, variant, session, request, ytItems, playlistId, ytId, title,
                   i, vid, events, closed>>

NextRetry ==
    \/ RetryBegin
    \/ RetryFetch

SpecRetry == InitRetry /\ [][NextRetry]_vars

\* ------------------------------------------------- the sign-in routes
\* main.js lines 184-278, one request at a time; calls holds the calls of
\* the request in hand.
\* the strings generateRandomString(16) can return (lines 43-48)
States == {"s1", "s2"}
\* what resToken.json() gives when the code is accepted
UserTokens == [present |-> TRUE, access_token |-> "user"]
NoTokens == [present |-> FALSE, access_token |-> Undefined]
\* youtube.channels.list({mine: true}): a channel, no channel, no items
\* field, or a rejection with e.code 401, 403, 500 or without a code
ProfileChannelAnswers == {"found", "empty", "missing", "401", "403", "500", "no_code"}

InitAuth ==
    /\ InitLoop("main", "idle")
    /\ spotifyTokens = NoTokens
    /\ playlistId = Null
    /\ i = 0
    /\ responses = <<>>

AuthFrame == <<variant, request, ytItems, playlistId, spToken, ytId, title, tracks,
               pages, i, vid, events, closed, responses, result, frames, batch>>

\* lines 184-197: the Spotify half of GET /auth/profiles
ProfilesSpotify ==
    /\ pc = "idle"
    /\ pc' = "profiles_google"
    /\ IF spotifyTokens.present
       THEN \E a \in {"ok", "not_ok", "throw"} :  \* 2xx, another status, rejected
            /\ calls' = <<Call("sp_me", 0, a)>>
            /\ spotifyTokens' = IF a = "ok" THEN spotifyTokens ELSE NoTokens
       ELSE /\ calls' = <<>>
            /\ UNCHANGED spotifyTokens
    /\ UNCHANGED <<googleTokens, spotifyState, query, AuthFrame>>

\* line 221: if (e.code === 401 || e.code === 403)
RevokesGoogle_OnAnyError(code) == code \in {"401", "403", "500", "no_code"}
RevokesGoogle(code) == code \in {"401", "403"}

\* lines 199-226: the Google half of GET /auth/profiles, and res.json
ProfilesGoogle ==
    /\ pc = "profiles_google"
    /\ pc' = "idle"
    /\ IF googleTokens
       THEN \E a \in ProfileChannelAnswers :
            /\ calls' = Append(calls, Call("yt_channels", 0, a))
            /\ googleTokens' = IF RevokesGoogle(a) THEN FALSE ELSE googleTokens
       ELSE UNCHANGED <<calls, googleTokens>>
    /\ UNCHANGED <<spotifyTokens, spotifyState, query, AuthFrame>>

\* lines 229-233: GET /auth/logout/:platform
Logout ==
    /\ pc = "idle"
    /\ \E platform \in {"spotify", "youtube", "other"} :
        /\ spotifyTokens' = IF platform = "spotify" THEN NoTokens ELSE spotifyTokens
        /\ googleTokens' = IF platform = "youtube" THEN FALSE ELSE googleTokens
    /\ calls' = <<>>
    /\ UNCHANGED <<pc, spotifyState, query, AuthFrame>>

\* lines 235-243: GET /auth/spotify
AuthSpotify ==
    /\ pc = "idle"
    /\ spotifyState' \in States
    /\ calls' = <<>>
    /\ UNCHANGED <<pc, session, query, AuthFrame>>

\* lines 245-258: GET /spotify/callback
SpotifyCallback ==
    /\ pc = "idle"
    /\ query' \in [code : {TRUE}, state : States \cup {Undefined}]
    /\ \E a \in {"tokens", "error_body", "throw"} :
        /\ calls' = <<Call("sp_code", 0, a)>>
        /\ spotifyTokens' = IF a = "tokens" THEN UserTokens
                             ELSE IF a = "error_body"
                                  THEN [present |-> TRUE, access_token |-> Undefined]
                             ELSE spotifyTokens
    /\ UNCHANGED <<pc, googleTokens, spotifyState, AuthFrame>>

\* lines 270-278: GET /oauth2callback
OAuth2Callback ==
    /\ pc = "idle"
    /\ query' = [code |-> TRUE, state |-> Undefined]
    /\ \E a \in {"tokens", "throw"} :
        /\ calls' = <<Call("yt_code", 0, a)>>
        /\ googleTokens' = IF a = "tokens" THEN TRUE ELSE googleTokens
    /\ UNCHANGED <<pc, spotifyTokens, spotifyState, AuthFrame>>

NextAuth ==
    \/ ProfilesSpotify
    \/ ProfilesGoogle
    \/ Logout
    \/ AuthSpotify
    \/ SpotifyCallback
    \/ OAuth2Callback

SpecAuth == InitAuth /\ [][NextAuth]_vars

TypeOK ==
    /\ pc \in {"start", "app_token", "channel", "validate", "fetch", "name",
               "create", "search", "insert", "delay", "hung", "ended"}
    /\ Len(tracks) <= MaxTracks
    /\ pages <= MaxPages
    /\ i <= Len(tracks)

\* ------------------------------------------------------------ vocabulary
Last(q) == q[Len(q)]
CallsOf(api) == {k \in DOMAIN calls : calls[k].api = api}
HasCall(api) == CallsOf(api) # {}
EventsOf(type) == {k \in DOMAIN events : events[k].type = type}
HasUserToken == spotifyTokens.present /\ spotifyTokens.access_token # Undefined
\* requests sent to api.spotify.com
SpotifyApiCalls == CallsOf("sp_tracks") \cup CallsOf("sp_name")
\* requests sent to the YouTube Data API
YouTubeApiCalls == CallsOf("yt_channels") \cup CallsOf("yt_list") \cup CallsOf("yt_create")
                       \cup CallsOf("yt_insert")
\* every network call of the run (the delay is not one)
NetworkCalls == {k \in DOMAIN calls : calls[k].api # "delay"}
EndedWithError == pc = "ended" /\ events # <<>> /\ Last(events).type = "error"
EndedWithDone == pc = "ended" /\ events # <<>> /\ Last(events).type = "done"

\* per-track events, in the order sent
IsTrackEvent(e) == e.type \in {"success", "failure"}
PerTrack == SelectSeq(events, IsTrackEvent)
\* the answer searchYouTube gave for the k-th track
SearchCalls(k) == {c \in DOMAIN calls : calls[c].api = "yt_search" /\ calls[c].idx = k}
InsertCalls(k) == {c \in DOMAIN calls : calls[c].api = "yt_insert" /\ calls[c].idx = k}
\* "none" while the k-th track has not been searched (inserted)
SearchRes(k) == LET S == SearchCalls(k)
                IN IF S = {} THEN "none" ELSE calls[CHOOSE c \in S : TRUE].res
InsertRes(k) == LET S == InsertCalls(k)
                IN IF S = {} THEN "none" ELSE calls[CHOOSE c \in S : TRUE].res

\* the page's source.onmessage (lines 494-507): s, f and total of the page,
\* shown: showOverlay was called, stopped: the source was closed or the page
\* reloaded
ClientInit == [s |-> <<>>, f |-> <<>>, total |-> 0, shown |-> FALSE, stopped |-> FALSE]
onmessage(st, d) ==
    IF st.stopped THEN st
    ELSE LET s1 == IF d.type = "info" THEN [st EXCEPT !.total = d.count] ELSE st
             s2 == IF d.type = "success" THEN [s1 EXCEPT !.s = Append(@, d.name)]
                   ELSE IF d.type = "failure" THEN [s1 EXCEPT !.f = Append(@, d.name)]
                   ELSE s1
             s3 == IF d.type = "done" THEN [s2 EXCEPT !.shown = TRUE, !.stopped = TRUE] ELSE s2
         IN IF d.type = "error" THEN [s3 EXCEPT !.stopped = TRUE] ELSE s3
RECURSIVE Client(_)
Client(es) == IF es = <<>> THEN ClientInit
              ELSE onmessage(Client(SubSeq(es, 1, Len(es) - 1)), Last(es))

\* the elements of q at the positions in P, in order
RECURSIVE Pick(_, _)
Pick(q, P) ==
    IF q = <<>> THEN <<>>
    ELSE Pick(SubSeq(q, 1, Len(q) - 1), P) \o (IF Len(q) \in P THEN <<Last(q)>> ELSE <<>>)

\* the items of all page responses, in page order
RECURSIVE AllItems(_)
AllItems(resps) ==
    IF resps = <<>> THEN <<>> ELSE Head(resps).items \o AllItems(Tail(resps))
IsTrack(item) == item # NoTrack

\* What one invocation sends when it runs alone and is given the answers
\* of f.log from position pos on, k tracks being done and id being the
\* playlist in use (lines 336-364 read top to bottom).
RECURSIVE Replay(_, _, _, _)
Replay(f, pos, k, id) ==
    IF pos > Len(f.log) THEN <<>>
    ELSE LET e == f.log[pos]
             name == f.tracks[k + 1]
             rest == Replay(f, pos + 1, k, id)
         IN IF e.api = "yt_create"
            THEN IF e.res = "throw" THEN <<ErrorEvent("insert failed")>>
                 ELSE <<InfoEvent(Len(f.tracks))>> \o rest
            ELSE IF e.api = "yt_search"
            THEN IF e.res = "null"
                 THEN <<TrackEvent(FALSE, name, "Not Found", k + 1)>> \o rest
                 ELSE rest
            ELSE IF e.api = "yt_insert"
            THEN IF e.res = "ok" THEN <<TrackEvent(TRUE, name, "", k + 1)>> \o rest
                 ELSE IF e.res = "playlistNotFound"
                 THEN <<ErrorEvent("Permission Error: Logged into wrong Brand Account?")>>
                 ELSE <<TrackEvent(FALSE, name, "Insert Failed", k + 1)>> \o rest
            ELSE IF k + 1 = Len(f.tracks) THEN <<DoneEvent(id)>>
                 ELSE Replay(f, pos + 1, k + 1, id)

\* the playlist run r writes to
OwnPlaylist(r) == IF Truthy(frames[r].given) THEN frames[r].given ELSE CreatedId(r)
\* the events of run r had it been alone with the same answers
EventsAlone(r) ==
    LET f == frames[r]
        head == IF Truthy(f.given) /\ f.pc # "fetched"
                THEN <<InfoEvent(Len(f.tracks))>> ELSE <<>>
    IN head \o Replay(f, 1, 0, OwnPlaylist(r))

\* ----------------------------------------------------------------- claims
\* C1: a LIKED request without a Spotify user token ends with an error
\* without requesting the app token and without any request to the Spotify
\* API.
C1_LikedWithoutUserTokenMakesNoSpotifyCall ==
    (pc # "start" /\ playlistId = LIKED /\ ~HasUserToken) =>
        /\ ~HasCall("sp_token")
        /\ SpotifyApiCalls = {}
        /\ (pc = "ended" => EndedWithError)

\* C2: when parseSpotifyPlaylistId returns null the run ends with an error
\* event and performs no network call at all.
C2_UnresolvableReferenceMakesNoNetworkCall ==
    (pc # "start" /\ playlistId = Null) =>
        /\ NetworkCalls = {}
        /\ (pc = "ended" => EndedWithError)

\* C3: when the source fetch succeeds with zero tracks the run ends with an
\* error event, never emits done and creates no destination playlist.
C3_EmptySourceFails ==
    (CallsOf("sp_tracks") # {} /\ pc \notin {"start", "app_token", "channel", "validate", "fetch"}
        /\ \A k \in CallsOf("sp_tracks") : calls[k].res = "ok"
        /\ tracks = <<>>) =>
        /\ EventsOf("done") = {}
        /\ ~HasCall("yt_create")
        /\ (pc = "ended" => EndedWithError)

\* C4: when a non-blank existingId is looked up and YouTube returns no
\* playlist for it, or the lookup throws, the run has ended with an error
\* event and no Spotify track page, no search and no insert was ever
\* requested.
C4_FailedLookupEndsBeforeFetch ==
    \A k \in CallsOf("yt_list") :
        calls[k].res \in {"empty", "missing", "throw"} =>
            /\ Trim(existingId) # <<>>
            /\ EndedWithError
            /\ closed
            /\ k = Len(calls)
            /\ ~HasCall("sp_tracks") /\ ~HasCall("yt_search") /\ ~HasCall("yt_insert")

\* C4 witness: a run ended by a lookup that found no playlist
C4_Witness ==
    /\ pc = "ended"
    /\ \E k \in CallsOf("yt_list") : calls[k].res = "empty"
    /\ Len(events) = 1

\* C5: in the copy of the route that accepts a link containing list=, a
\* request with a non-blank existingId never calls playlists.insert.
C5_ExistingIdNeverCreatesPlaylist ==
    Trim(existingId) # <<>> => ~HasCall("yt_create")

\* C6: in a run that reaches done over N tracks, exactly N per-track events
\* were sent, the k-th about track k: success iff the matcher returned a
\* video and the insert succeeded, failure 'Not Found' iff the matcher
\* returned null, failure 'Insert Failed' iff a video was found and its
\* insert rejected; the page's added list is no longer than the matched set,
\* its failed list holds the other N - |added| tracks, and the two lists
\* hold every track exactly once.
C6_DoneRunReportsEveryTrackOnce ==
    EndedWithDone =>
        LET N == Len(tracks)
            per == PerTrack
            sr == [k \in 1..N |-> SearchRes(k)]
            ir == [k \in 1..N |-> InsertRes(k)]
            ok == {k \in 1..N : per[k].type = "success"}
            cl == Client(events)
        IN /\ Len(per) = N
           /\ \A k \in 1..N :
                /\ Cardinality(SearchCalls(k)) = 1
                /\ per[k].name = tracks[k]
                /\ per[k].type = "success" <=> (sr[k] # "null" /\ ir[k] = "ok")
                /\ (per[k].type = "failure" /\ per[k].reason = "Not Found")
                       <=> sr[k] = "null"
                /\ (per[k].type = "failure" /\ per[k].reason = "Insert Failed")
                       <=> (sr[k] # "null" /\ ir[k] \in InsertErrors)
           /\ cl.shown
           /\ Len(cl.s) <= Cardinality({k \in 1..N : sr[k] # "null"})
           /\ Len(cl.f) = N - Len(cl.s)
           /\ cl.s = Pick(tracks, ok)
           /\ cl.f = Pick(tracks, (1..N) \ ok)

\* C6 witness: three tracks; the first added, the second not found, the
\* third found but its insert rejected
C6_Witness ==
    /\ EndedWithDone
    /\ Len(tracks) = 3
    /\ Len(PerTrack) = 3
    /\ PerTrack[1].type = "success"
    /\ PerTrack[2].reason = "Not Found"
    /\ PerTrack[3].reason = "Insert Failed"

\* C7: when track k has no match or its insert is rejected for a per-item
\* reason (one that is neither permission-denied nor playlist-not-found),
\* track k is reported as failed, the run does not end there, and in the
\* finished run every later track was searched and, if matched, inserted
\* (up to a later track whose insert ended the run).
C7_FailureDoesNotStopLaterTracks ==
    LET N == Len(tracks)
        sr == [k \in 1..N |-> SearchRes(k)]
        ir == [k \in 1..N |-> InsertRes(k)]
        failed == {<<events[e].count, events[e].name>> : e \in EventsOf("failure")}
        noError == EventsOf("error") = {}
    IN \A k \in 1..N :
        (sr[k] = "null" \/ ir[k] \in InsertErrors \ {"forbidden", "playlistNotFound"}) =>
            /\ <<k, tracks[k]>> \in failed
            /\ noError =>
                   /\ pc \in {"delay", "search", "insert", "hung", "ended"}
                   /\ pc = "ended" => EndedWithDone
            /\ pc = "ended" =>
                   \A j \in (k+1)..N :
                       (\A m \in (k+1)..(j-1) : ir[m] # "playlistNotFound") =>
                           /\ sr[j] # "none"
                           /\ sr[j] # "null" => ir[j] # "none"

\* C7 witness: the first track's insert was rejected as a duplicate, the
\* second track was not found, and the third was still searched and inserted
C7_Witness ==
    /\ EndedWithDone
    /\ Len(tracks) = 3
    /\ InsertRes(1) = "videoAlreadyInPlaylist"
    /\ SearchRes(2) = "null"
    /\ InsertRes(3) = "ok"

\* C8: in a run in which every insert is rejected with a permission-denied
\* or playlist-not-found signal, the first rejected insert ends the run with
\* a top-level error: no later insert, no success event, no done event.
C8_UnwritablePlaylistEndsRun ==
    (CallsOf("yt_insert") # {}
        /\ \A c \in CallsOf("yt_insert") : calls[c].res \in {"forbidden", "playlistNotFound"}) =>
        /\ Cardinality(CallsOf("yt_insert")) = 1
        /\ EndedWithError
        /\ EventsOf("success") = {} /\ EventsOf("done") = {}

\* C9: with an explicit existing destination id, an insert rejected as a
\* duplicate yields a per-track failure event and does not end the run, and
\* a finished run whose only rejections were duplicates ended with done and
\* sent no error event.
C9_DuplicatesAreSoftFailures ==
    Trim(existingId) # <<>> =>
        /\ \A c \in CallsOf("yt_insert") :
               calls[c].res = "videoAlreadyInPlaylist" =>
                   /\ \E e \in EventsOf("failure") :
                          /\ events[e].count = calls[c].idx
                          /\ events[e].reason = "Insert Failed"
                   /\ ~(pc = "ended" /\ c = Len(calls))
        /\ (pc = "ended" /\ EventsOf("info") # {}
               /\ \A c \in CallsOf("yt_insert") :
                      calls[c].res \in {"ok", "videoAlreadyInPlaylist"}) =>
               (EndedWithDone /\ EventsOf("error") = {})

\* C9 witness: a finished run on an existing playlist that already held vA,
\* in which the insert of vA was rejected as a duplicate
C9_Witness ==
    /\ EndedWithDone
    /\ Trim(existingId) # <<>>
    /\ \E c \in CallsOf("yt_insert") :
           calls[c].res = "videoAlreadyInPlaylist" /\ calls[c].idx < Len(tracks)

\* C10: tracks are handled one at a time in source order: every search or
\* insert of an earlier track precedes the search of a later one, an insert
\* directly follows the search of its own track and carries that track's
\* video, and so the inserted videos follow the source order.
C10_TracksHandledInSourceOrder ==
    LET S == CallsOf("yt_search")
        I == CallsOf("yt_insert")
        per == PerTrack
    IN /\ \A q \in S :
              /\ calls[q].idx \in 1..Len(tracks)
              /\ calls[q].res \in {"null", VideoOf(tracks[calls[q].idx])}
              /\ \A p \in S \cup I : p < q => calls[p].idx < calls[q].idx
       /\ \A q \in I :
              /\ q > 1
              /\ calls[q-1].api = "yt_search"
              /\ calls[q-1].idx = calls[q].idx
              /\ calls[q-1].res = VideoOf(tracks[calls[q].idx])
       /\ \A k \in DOMAIN per : per[k].name = tracks[k]
       /\ pc \in {"search", "insert"} => \A p \in S \cup I : calls[p].idx <= i + 1
       /\ pc = "search" => \A p \in S \cup I : calls[p].idx < i + 1

\* C10 witness: a finished run that inserted the videos of two different
\* tracks, A before B
C10_Witness ==
    /\ EndedWithDone
    /\ Len(tracks) >= 2
    /\ tracks[1] = "A" /\ tracks[2] = "B"
    /\ InsertRes(1) = "ok" /\ InsertRes(2) = "ok"

\* C11: between any two playlistItems.insert calls of one run the pause of
\* the loop is executed: no two inserts are issued back to back.
C11_DelayBetweenInserts ==
    LET inserts == CallsOf("yt_insert")
        delays == CallsOf("delay")
    IN \A p \in inserts : \A q \in inserts :
           p < q => \E d \in delays : p < d /\ d < q

\* C11 witness: a run that has issued the inserts of two tracks
C11_Witness ==
    /\ InsertRes(1) # "none"
    /\ InsertRes(2) # "none"

C13_NoCallsAfterClientCloses ==
    \A c \in CallsOf("close") :
        \A q \in CallsOf("yt_search") \cup CallsOf("yt_insert") :
            q > c => calls[q].idx = calls[c].idx

\* C14: a non-success response from Spotify on any page of the track
\* listing, the first or a later one, is fatal: the run ends with an error
\* event and no track is searched or inserted.
C14_FailedPageIsFatal ==
    (\E k \in CallsOf("sp_tracks") : calls[k].res = "not_ok") =>
        /\ EndedWithError
        /\ ~HasCall("yt_search")
        /\ ~HasCall("yt_insert")

\* C15: when the session holds no Spotify user token and the
\* client-credentials exchange answers with a non-success status, the run
\* ends with an error and sends no track-listing request to Spotify.
C15_FailedTokenExchangeIsFatal ==
    (~HasUserToken /\ \E k \in CallsOf("sp_token") : calls[k].res = "not_ok") =>
        /\ ~HasCall("sp_tracks")
        /\ (pc = "ended" => EndedWithError)

\* C16: served with successful pages P1..Pn linked by next cursors,
\* fetchAllSpotifyTracks returns exactly the items whose track is not null,
\* one track each, in page order and in item order within a page.
C16_FetchKeepsEveryTrackInOrder ==
    (pc = "fetched" /\ \A k \in DOMAIN responses : responses[k].ok) =>
        LET all == AllItems(responses) IN
        /\ tracks # Null
        /\ tracks = SelectSeq(all, IsTrack)
        /\ Len(tracks) = Cardinality({k \in DOMAIN all : all[k] # NoTrack})

\* C16 witness: two pages, each with one track and one null item
C16_Witness ==
    /\ pc = "fetched"
    /\ Len(responses) = 2
    /\ responses[1].items = <<"B", NoTrack>>
    /\ responses[2].items = <<NoTrack, "A">>
    /\ tracks = <<"B", "A">>

\* C17: for every input that contains playlist/<id> or playlist:<id>, <id>
\* being the whole run of id characters after the separator (at the first
\* such place of the input), parseSpotifyPlaylistId returns exactly <id>.
C17_ParserExtractsPlaylistId ==
    pc = "parsed" =>
        \A p \in DOMAIN playlistUrl : \A e \in DOMAIN playlistUrl :
            ( /\ p + 9 <= e
              /\ SubSeq(playlistUrl, p, p + 7) = KwPlaylist
              /\ playlistUrl[p + 8] \in {"/", ":"}
              /\ \A k \in (p + 9)..e : playlistUrl[k] \in Alnum
              /\ (e = Len(playlistUrl) \/ playlistUrl[e + 1] \notin Alnum)
              /\ \A q \in 1..(p - 1) :
                     ~ /\ SubSeq(playlistUrl, q, q + 7) = KwPlaylist
                       /\ playlistUrl[q + 8] \in {"/", ":"}
                       /\ playlistUrl[q + 9] \in Alnum )
            => playlistId = SubSeq(playlistUrl, p + 9, e)

\* C17 witness: an id of two characters between a leading blank and a tail
\* that holds a second reference
C17_Witness ==
    /\ pc = "parsed"
    /\ playlistUrl = <<" ">> \o KwPlaylist \o <<":", "a", "Z">> \o <<"&","p","l","a","y","l","i","s","t","/","q">>
    /\ playlistId = <<"a", "Z">>

\* C18: an input that, once leading and trailing whitespace is removed, is
\* the word liked in any letter case resolves to the LIKED sentinel and the
\* fetch requests the liked-songs endpoint; no other input resolves to the
\* sentinel.
C18_OnlyLikedResolvesToSentinel ==
    pc = "parsed" =>
        LET liked == \E a \in DOMAIN playlistUrl :
                         /\ a + 4 <= Len(playlistUrl)
                         /\ \A k \in 1..(a - 1) : playlistUrl[k] \in Whitespace
                         /\ \A k \in (a + 5)..Len(playlistUrl) : playlistUrl[k] \in Whitespace
                         /\ ToUpperCase(SubSeq(playlistUrl, a, a + 4)) = LIKED
        IN /\ liked => (playlistId = LIKED /\ TracksUrl(playlistId).path = "me/tracks")
           /\ ~liked => playlistId # LIKED

\* C19: searchYouTube never raises to its caller: whatever yts settles with
\* it returns the first video's id or null, and an id only when the result
\* holds at least one video.
C19_SearchNeverRaises ==
    pc = "searched" =>
        /\ vid # "raise"
        /\ vid # "null" =>
               /\ result.kind = "videos"
               /\ Len(result.videos) > 0
               /\ vid = result.videos[1]

\* C19 witness: a result object without a videos list, answered with null
C19_Witness ==
    /\ pc = "searched"
    /\ result.kind = "novideos"
    /\ vid = "null"

\* C20: a search call that never responds is cut off: the run does not stay
\* in that search, and eventually writes its terminal event and ends.
C20_HungSearchIsCutOff == (pc = "hung") ~> (pc = "ended")

\* C21: a request whose session holds no Google tokens ends with a single
\* error event and makes no call to Spotify (token endpoint or API) and no
\* call to YouTube.
C21_NoGoogleTokensMakesNoCall ==
    (~googleTokens /\ pc # "start") =>
        /\ EndedWithError
        /\ Len(events) = 1
        /\ ~HasCall("sp_token")
        /\ SpotifyApiCalls = {}
        /\ YouTubeApiCalls = {}
        /\ ~HasCall("yt_search")
        /\ calls = <<>>

\* C21 witness: a run without Google tokens that has ended, its one event
\* being the request to log in to YouTube
C21_Witness ==
    /\ ~googleTokens
    /\ pc = "ended"
    /\ events = <<ErrorEvent("Login to YouTube first")>>

\* C22: two runs interleaved at their awaits share no state: each has sent
\* exactly the events it would send alone for the answers it was given, its
\* per-track events name its own tracks with its own counts, and its done
\* event carries its own playlist.
C22_InterleavedRunsDoNotInterfere ==
    pc = "pair" =>
        \A r \in Runs :
            LET f == frames[r] IN
            /\ f.events = EventsAlone(r)
            /\ \A k \in DOMAIN f.events :
                   /\ IsTrackEvent(f.events[k]) =>
                          /\ f.events[k].count \in 1..Len(f.tracks)
                          /\ f.events[k].name = f.tracks[f.events[k].count]
                   /\ f.events[k].type = "done" => f.events[k].url = OwnPlaylist(r)

\* C22 witness: both runs are in the middle of their loops, each having
\* finished its first track and waiting for the insert of its second
C22_Witness ==
    /\ pc = "pair"
    /\ \A r \in Runs :
           /\ frames[r].pc = "insert"
           /\ frames[r].i = 1
           /\ Len(frames[r].events) = 2

\* C23: in the batch route, a run over N fetched tracks that answers with
\* success has recorded every track in added or in failed, the tracks
\* without a video in failed: length(added) + length(failed) = N.
C23_BatchReportsEveryTrack ==
    (pc = "batch_done" /\ batch.status = 200) =>
        Len(batch.added) + Len(batch.failed) = Len(batch.tracks)

\* C24: fetchAllSpotifyTracks of main.js returns for every listing of
\* successful pages, a listing whose next links never end included: the
\* page loop is left after a bounded number of requests.  (A run whose
\* track list has outgrown MaxTracks is outside the model and counts as
\* left.)
C24_PageLoopTerminates ==
    <>(pc = "chain_returned" \/ Len(tracks) > MaxTracks)

\* C25: the page-capped fetchAllSpotifyTracks, served pages of at most
\* PageLimit (50) items each, never returns a list of more than PageLimit
\* (50) songs.
C25_CappedFetchReturnsOnePageAtMost ==
    pc = "capped_returned" => Len(tracks) <= PageLimit

\* the k-th call is the second request of a page whose first request was
\* answered 401 and followed by a new app token
IsRetry(k) ==
    /\ k >= 3
    /\ calls[k].api = "sp_tracks"
    /\ calls[k - 1] = Call("sp_token", calls[k].idx, "ok")
    /\ calls[k - 2] = Call("sp_tracks", calls[k].idx, "401")

\* C26: in the retrying fetch, a page answered 401 to the app token (no
\* user token, not LIKED) is asked for again at most once after a new
\* token, and when the second answer is a success the fetch goes on with
\* that page rather than failing.
C26_SuccessfulRetryContinues ==
    /\ \A p \in 1..MaxPages :
           Cardinality({k \in DOMAIN calls : calls[k].api = "sp_tracks" /\ calls[k].idx = p}) <= 2
    /\ \A k \in DOMAIN calls :
           (IsRetry(k) /\ calls[k].res = "ok" /\ k = Len(calls)) => pc # "retry_thrown"

\* C27: the Google half of GET /auth/profiles removes the Google tokens
\* exactly when the channel lookup is rejected with code 401 or 403, leaves
\* them as they are otherwise, and never touches the Spotify tokens.
C27_ProfilesRevokesGoogleOnAuthErrorOnly ==
    [][pc = "profiles_google" =>
          /\ spotifyTokens' = spotifyTokens
          /\ googleTokens' = IF googleTokens /\ Last(calls').res \in {"401", "403"}
                              THEN FALSE ELSE googleTokens]_vars
C27_Witness ==
    /\ pc = "idle"
    /\ calls = <<Call("sp_me", 0, "ok"), Call("yt_channels", 0, "500")>>
    /\ googleTokens
    /\ spotifyTokens = UserTokens

\* C28: GET /spotify/callback writes spotifyTokens only when the request
\* carries a state parameter and it equals the spotifyState stored by
\* GET /auth/spotify.
C28_CallbackChecksState ==
    [][(calls' # <<>> /\ calls'[1].api = "sp_code" /\ spotifyTokens' # spotifyTokens) =>
          (query'.state # Undefined /\ query'.state = spotifyState)]_vars

\* C29: the k-th per-track event of a run carries count k: the counts start
\* at 1 and go up by one, none exceeds the total of the info event sent
\* before it, so the ratio count / total the page draws lies in (0, 1].
C29_CountFollowsTheTracks ==
    LET infos == EventsOf("info") IN
    /\ \A k \in DOMAIN PerTrack : PerTrack[k].count = k
    /\ \A j \in DOMAIN events :
           IsTrackEvent(events[j]) =>
               /\ \E m \in infos : m < j
               /\ \A m \in infos :
                      /\ events[m].count > 0
                      /\ events[j].count >= 1
                      /\ events[j].count <= events[m].count
C29_Witness ==
    /\ EndedWithDone
    /\ Len(PerTrack) >= 2
    /\ Last(PerTrack).count = Len(tracks)

\* the track listing ended in null: its last page was refused before any
\* track was read
FetchGaveNull ==
    LET pagesAsked == CallsOf("sp_tracks") IN
    /\ pagesAsked # {}
    /\ \A k \in pagesAsked :
           (\A l \in pagesAsked : l <= k) => (calls[k].res = "not_ok" /\ Len(tracks) = 0)

\* C30: a run calls playlists.insert at most once, and only after the
\* Spotify fetch has returned a track list; a run that ended with 'Spotify
\* access failed' or with an error of the existing-id validation has
\* created no playlist.
C30_PlaylistCreatedOnceAfterFetch ==
    LET created == CallsOf("yt_create") IN
    /\ Cardinality(created) <= 1
    /\ \A c \in created :
           /\ \E k \in CallsOf("sp_tracks") : k < c
           /\ \A k \in CallsOf("sp_tracks") : k < c /\ calls[k].res # "throw"
           /\ ~FetchGaveNull
    /\ (EndedWithError /\ Last(events).reason \in
            {"Spotify access failed. Check URL or privacy.",
             "YouTube Playlist ID not found.", "YouTube API Error"}) => created = {}
C30_Witness ==
    /\ EndedWithDone
    /\ Cardinality(CallsOf("yt_create")) = 1
    /\ calls[1].api = "sp_tracks"
    /\ Len(PerTrack) >= 1

====
